---- MODULE Spec2Model ----
(***************************************************************************)
(* Model of commithelp.py: the conventional-commit helper.                 *)
(*                                                                         *)
(* A Python str is a sequence of one-character strings, so that strip(),   *)
(* lower(), int(), len(), "\n".join() and line splitting are computed      *)
(* rather than assumed.  One action is one run of the program from a       *)
(* blocking call (input() or subprocess.run) to the next one.              *)
(***************************************************************************)
EXTENDS Integers, Sequences, FiniteSets, TLC

----------------------------------------------------------------------------
(* Bounds of the model *)

\* most reprompts (invalid selections, rejected descriptions) in one run
MaxReprompts == 2
\* most non-blank lines typed into get_body
MaxBodyLines == 2

\* the soft limit of get_description (len(desc) > 72)
MaxDescLen == 72

----------------------------------------------------------------------------
(* Python strings *)

NL == "\n"
Whitespace == {" ", "\t", NL}
Digits == <<"0", "1", "2", "3", "4", "5", "6", "7", "8", "9">>
Upper == <<"A","B","C","D","E","F","G","H","I","J","K","L","M",
           "N","O","P","Q","R","S","T","U","V","W","X","Y","Z">>
Lowercase == <<"a","b","c","d","e","f","g","h","i","j","k","l","m",
               "n","o","p","q","r","s","t","u","v","w","x","y","z">>

\* c * n
Rep(c, n) == [i \in 1..n |-> c]

RECURSIVE lstrip(_)
lstrip(s) == IF s # <<>> /\ Head(s) \in Whitespace THEN lstrip(Tail(s)) ELSE s

RECURSIVE rstrip(_)
rstrip(s) ==
    IF s # <<>> /\ s[Len(s)] \in Whitespace
    THEN rstrip(SubSeq(s, 1, Len(s) - 1))
    ELSE s

\* str.strip()
strip(s) == rstrip(lstrip(s))

lowerChar(c) ==
    IF \E i \in 1..26 : Upper[i] = c
    THEN Lowercase[CHOOSE i \in 1..26 : Upper[i] = c]
    ELSE c

\* str.lower()
lower(s) == [i \in 1..Len(s) |-> lowerChar(s[i])]

IsDigit(c) == \E i \in 1..10 : Digits[i] = c
DigitVal(c) == (CHOOSE i \in 1..10 : Digits[i] = c) - 1

RECURSIVE digitsValue(_)
digitsValue(s) ==
    IF s = <<>> THEN 0
    ELSE 10 * digitsValue(SubSeq(s, 1, Len(s) - 1)) + DigitVal(s[Len(s)])

\* the digits of a decimal literal, after an optional sign
unsignedPart(s) == IF s # <<>> /\ Head(s) \in {"+", "-"} THEN Tail(s) ELSE s

\* int(s) raises ValueError
raisesValueError(s) ==
    LET u == unsignedPart(strip(s))
    IN  u = <<>> \/ \E i \in 1..Len(u) : ~IsDigit(u[i])

\* int(s), where it does not raise
int(s) ==
    LET t == strip(s)
        v == digitsValue(unsignedPart(t))
    IN  IF t # <<>> /\ Head(t) = "-" THEN 0 - v ELSE v

\* sep.join(parts)
RECURSIVE join(_, _)
join(sep, parts) ==
    IF parts = <<>> THEN <<>>
    ELSE IF Len(parts) = 1 THEN parts[1]
    ELSE parts[1] \o sep \o join(sep, Tail(parts))

----------------------------------------------------------------------------
(* The table of commit types, in the order of the dict *)

COMMIT_TYPES ==
    << <<"f","e","a","t">>,
       <<"f","i","x">>,
       <<"d","o","c","s">>,
       <<"s","t","y","l","e">>,
       <<"r","e","f","a","c","t","o","r">>,
       <<"p","e","r","f">>,
       <<"t","e","s","t">>,
       <<"c","h","o","r","e">>,
       <<"b","u","i","l","d">>,
       <<"c","i">>,
       <<"r","e","v","e","r","t">> >>

\* "BREAKING CHANGE: This commit introduces breaking changes."
BREAKING_FOOTER ==
    <<"B","R","E","A","K","I","N","G"," ","C","H","A","N","G","E",":"," ",
      "T","h","i","s"," ","c","o","m","m","i","t"," ",
      "i","n","t","r","o","d","u","c","e","s"," ",
      "b","r","e","a","k","i","n","g"," ","c","h","a","n","g","e","s",".">>

----------------------------------------------------------------------------
(* Decisions and pure functions of the program *)

\* a validation that ignores case
ValidType_AnyCase(commit_type) ==
    \E i \in 1..Len(COMMIT_TYPES) : COMMIT_TYPES[i] = lower(commit_type)

\* commit_type in COMMIT_TYPES
ValidType(commit_type) == \E i \in 1..Len(COMMIT_TYPES) : COMMIT_TYPES[i] = commit_type

\* 0 <= idx < len(types)
ValidIndex(idx) == 0 <= idx /\ idx < Len(COMMIT_TYPES)

\* a limit that is off by one
DescTooLong_OffByOne(d) == Len(d) > MaxDescLen + 1

\* len(desc) > 72
DescTooLong(d) == Len(d) > MaxDescLen

\* confirm = input("Continue anyway? (y/n): ").strip().lower(); confirm == 'y'
confirm_long(raw) == lower(strip(raw)) = <<"y">>

\* response = input(...).strip().lower(); return response == 'y'
check_breaking(raw) == lower(strip(raw)) = <<"y">>

\* a confirmation that only 'n' declines
confirm_commit_UnlessNo(raw) == lower(strip(raw)) # <<"n">>

\* confirm = input("Commit with this message? (y/n): ").strip().lower(); confirm == 'y'
confirm_commit(raw) == lower(strip(raw)) = <<"y">>

\* a header with the ! before the scope
build_header_BangFirst(t, s, d, b) ==
    LET h0 == t
        h1 == IF b THEN h0 \o <<"!">> ELSE h0
        h2 == IF s # <<>> THEN h1 \o <<"(">> \o s \o <<")">> ELSE h1
    IN  h2 \o <<":", " ">> \o d

\* the header built by build_message
build_header(t, s, d, b) ==
    LET h0 == t
        h1 == IF s # <<>> THEN h0 \o <<"(">> \o s \o <<")">> ELSE h0
        h2 == IF b THEN h1 \o <<"!">> ELSE h1
    IN  h2 \o <<":", " ">> \o d

\* a message whose footer follows without a blank line
build_message_NoBlankBeforeFooter(t, s, d, bd, b) ==
    LET p0 == << build_header(t, s, d, b) >>
        p1 == IF bd # <<>> THEN p0 \o << <<>>, bd >> ELSE p0
        p2 == IF b THEN p1 \o << BREAKING_FOOTER >> ELSE p1
    IN  join(<<NL>>, p2)

\* a message whose body follows the footer
build_message_BodyLast(t, s, d, bd, b) ==
    LET p0 == << build_header(t, s, d, b) >>
        p1 == IF b THEN p0 \o << <<>>, BREAKING_FOOTER >> ELSE p0
        p2 == IF bd # <<>> THEN p1 \o << <<>>, bd >> ELSE p1
    IN  join(<<NL>>, p2)

\* CommitHelper.build_message
build_message(t, s, d, bd, b) ==
    LET p0 == << build_header(t, s, d, b) >>
        p1 == IF bd # <<>> THEN p0 \o << <<>>, bd >> ELSE p0
        p2 == IF b THEN p1 \o << <<>>, BREAKING_FOOTER >> ELSE p1
    IN  join(<<NL>>, p2)

\* exit status of an interpreter that ends on an uncaught KeyboardInterrupt:
\* 1 (traceback, CPython up to 3.7) or 130 (killed by SIGINT, CPython 3.8+)
UncaughtInterruptStatus == {1, 130}

----------------------------------------------------------------------------
(* Inputs *)

\* sys.argv: TYPE of -q
ArgTypes ==
    { <<"f","e","a","t">>, <<"f","i","x">>, <<"r","e","v","e","r","t">>,
      <<"F","e","a","t">>, <<"f","e","a","t","u","r","e">>, <<>> }

\* sys.argv: DESC of -q
ArgDescs ==
    { <<"A","d","d"," ","l","o","g","i","n">>,
      <<"F","i","x"," ","n","u","l","l"," ","p","o","i","n","t","e","r">>,
      <<>> }

\* sys.argv: -s; <<>> is None (absent), <<s>> is the string s
ArgScopes == { <<>>, << <<>> >>, << <<"a","u","t","h">> >> }

\* parsed arguments; quick is <<>> (None) or <<TYPE, DESC>>
Args ==
    [ status : BOOLEAN, types : BOOLEAN,
      quick : {<<>>} \cup { <<t, d>> : t \in ArgTypes, d \in ArgDescs },
      scope : ArgScopes ]

\* lines typed at "Enter number (1-11): "
SelectionInputs ==
    { <<"1">>, <<"2">>, <<" ","1","1"," ">>,
      <<"0">>, <<"1","2">>, <<"-","1">>,
      <<"a","b","c">>, <<"1",".","5">>, <<>> }

\* lines typed at "Scope (optional, press Enter to skip): "
ScopeInputs == { <<>>, <<"a","u","t","h">>, <<" ","a","p","i"," ">> }

\* lines typed at "Brief description (required): "
DescriptionInputs ==
    { <<>>, <<" "," ">>,
      <<"A","d","d"," ","l","o","g","i","n">>,
      <<" ","F","i","x"," ","n","u","l","l"," ","p","o","i","n","t","e","r"," ">>,
      Rep("x", MaxDescLen),
      <<" ">> \o Rep("x", MaxDescLen) \o <<" ">>,
      Rep("x", MaxDescLen + 1) }

\* lines typed at the y/n prompts
YesNoInputs ==
    { <<"y">>, <<" ","Y"," ">>, <<"n">>, <<"y","e","s">> }

\* lines typed into get_body
BodyInputs == { <<>>, <<"w","h","y">>, <<" ">> }

\* what subprocess.run(..., check=True) does: returns, raises
\* CalledProcessError, raises FileNotFoundError
GitResults == {"ok", "failed", "missing"}

----------------------------------------------------------------------------
(* State *)

VARIABLES
    pc,            \* where the run blocks: a prompt, a subprocess, or "done"
    args,          \* argparse result
    mode,          \* the branch main took
    type, scope, description, body, breaking,   \* CommitHelper fields
    desc,          \* get_description: the stripped input awaiting confirmation
    lines,         \* get_body: the lines read so far
    built,         \* build_message has been called
    message,       \* its result
    exitCode,      \* exit status of the process, Running until it ends
    commitCalls,   \* calls of subprocess.run(['git', 'commit', ...])
    statusCalls,   \* calls of subprocess.run(['git', 'status', ...])
    outcome,       \* how the run ended
    last,          \* the last thing the environment did: [kind, at, text]
    confirmReply,  \* <<raw>> once the final confirmation was answered
    collected,     \* fields assigned by interactive_commit, in order
    reprompts      \* prompts repeated so far

vars == << pc, args, mode, type, scope, description, body, breaking, desc,
           lines, built, message, exitCode, commitCalls, statusCalls, outcome,
           last, confirmReply, collected, reprompts >>

helper == << type, scope, description, body, breaking >>
locals == << desc, lines >>

Running == 0 - 1

Prompts == { "select_type", "get_scope", "get_description", "confirm_long",
             "get_body", "check_breaking", "confirm_commit" }

\* CommitHelper.__init__ and process start
Init ==
    /\ pc = "main"
    /\ args \in Args
    /\ mode = "none"
    /\ type = <<>> /\ scope = <<>> /\ description = <<>> /\ body = <<>>
    /\ breaking = FALSE
    /\ desc = <<>> /\ lines = <<>>
    /\ built = FALSE /\ message = <<>>
    /\ exitCode = Running
    /\ commitCalls = 0 /\ statusCalls = 0
    /\ outcome = "running"
    /\ last = [kind |-> "none", at |-> "main", text |-> <<>>]
    /\ confirmReply = <<>>
    /\ collected = <<>>
    /\ reprompts = 0

\* the process ends with the given status
Exit(code, how) ==
    /\ pc' = "done"
    /\ exitCode' = code
    /\ outcome' = how

----------------------------------------------------------------------------
(* Actions *)

\* main(), up to its first blocking call; quick_commit up to subprocess.run
Main ==
    /\ pc = "main"
    /\ last' = [kind |-> "start", at |-> "main", text |-> <<>>]
    /\ UNCHANGED << args, locals, confirmReply, collected, reprompts, body, breaking >>
    /\ IF args.status
       THEN /\ mode' = "status"
            /\ pc' = "git_status"
            /\ statusCalls' = statusCalls + 1
            /\ UNCHANGED << type, scope, description, built, message, exitCode,
                            commitCalls, outcome >>
       ELSE IF args.types
       THEN /\ mode' = "types"
            /\ Exit(0, "success")
            /\ UNCHANGED << type, scope, description, built, message,
                            commitCalls, statusCalls >>
       ELSE IF args.quick # <<>>
       THEN /\ mode' = "quick"
            /\ IF ~ValidType(args.quick[1])
               THEN /\ Exit(1, "invalid_type")
                    /\ UNCHANGED << type, scope, description, built, message,
                                    commitCalls, statusCalls >>
               ELSE /\ type' = args.quick[1]
                    /\ scope' = (IF args.scope = <<>> \/ args.scope[1] = <<>>
                                 THEN <<>> ELSE args.scope[1])
                    /\ description' = args.quick[2]
                    /\ built' = TRUE
                    /\ message' = build_message(type', scope', description',
                                                body, breaking)
                    /\ commitCalls' = commitCalls + 1
                    /\ pc' = "git_commit"
                    /\ UNCHANGED << exitCode, outcome, statusCalls >>
       ELSE /\ mode' = "interactive"
            /\ pc' = "select_type"
            /\ UNCHANGED << type, scope, description, built, message, exitCode,
                            commitCalls, statusCalls, outcome >>

\* show_status after subprocess.run, and main's return
ShowStatus(result) ==
    /\ pc = "git_status"
    /\ last' = [kind |-> "git", at |-> pc, text |-> <<>>]
    /\ Exit(0, CASE result = "ok" -> "success"
                 [] result = "failed" -> "tool_failed"
                 [] OTHER -> "tool_missing")
    /\ UNCHANGED << args, mode, helper, locals, built, message, commitCalls,
                    statusCalls, confirmReply, collected, reprompts >>

\* one pass of the loop of select_type
SelectType(raw) ==
    /\ pc = "select_type"
    /\ last' = [kind |-> "input", at |-> pc, text |-> raw]
    /\ UNCHANGED << args, mode, scope, description, body, breaking, locals,
                    built, message, commitCalls, statusCalls, confirmReply >>
    /\ IF raisesValueError(raw)
       THEN /\ Exit(1, "invalid_selection")
            /\ UNCHANGED << type, collected, reprompts >>
       ELSE IF ValidIndex(int(raw) - 1)
       THEN /\ type' = COMMIT_TYPES[(int(raw) - 1) + 1]
            /\ collected' = Append(collected, "type")
            /\ pc' = "get_scope"
            /\ UNCHANGED << exitCode, outcome, reprompts >>
       ELSE /\ reprompts < MaxReprompts
            /\ reprompts' = reprompts + 1
            /\ UNCHANGED << pc, type, collected, exitCode, outcome >>

\* get_scope
GetScope(raw) ==
    /\ pc = "get_scope"
    /\ last' = [kind |-> "input", at |-> pc, text |-> raw]
    /\ scope' = strip(raw)
    /\ collected' = Append(collected, "scope")
    /\ pc' = "get_description"
    /\ UNCHANGED << args, mode, type, description, body, breaking, locals,
                    built, message, exitCode, commitCalls, statusCalls,
                    outcome, confirmReply, reprompts >>

\* get_description: the first input() of a pass of the loop
GetDescription(raw) ==
    /\ pc = "get_description"
    /\ last' = [kind |-> "input", at |-> pc, text |-> raw]
    /\ UNCHANGED << args, mode, type, scope, body, breaking, lines, built,
                    message, exitCode, commitCalls, statusCalls, outcome,
                    confirmReply >>
    /\ LET d == strip(raw)
       IN  IF d # <<>>
           THEN IF DescTooLong(d)
                THEN /\ desc' = d
                     /\ pc' = "confirm_long"
                     /\ UNCHANGED << description, collected, reprompts >>
                ELSE /\ desc' = d
                     /\ description' = d
                     /\ collected' = Append(collected, "description")
                     /\ pc' = "get_body"
                     /\ UNCHANGED reprompts
           ELSE /\ reprompts < MaxReprompts
                /\ reprompts' = reprompts + 1
                /\ desc' = d
                /\ UNCHANGED << pc, description, collected >>

\* get_description: the answer to "Continue anyway? (y/n): "
ConfirmLong(raw) ==
    /\ pc = "confirm_long"
    /\ last' = [kind |-> "input", at |-> pc, text |-> raw]
    /\ UNCHANGED << args, mode, type, scope, body, breaking, locals, built,
                    message, exitCode, commitCalls, statusCalls, outcome,
                    confirmReply >>
    /\ IF confirm_long(raw)
       THEN /\ description' = desc
            /\ collected' = Append(collected, "description")
            /\ pc' = "get_body"
            /\ UNCHANGED reprompts
       ELSE /\ reprompts < MaxReprompts
            /\ reprompts' = reprompts + 1
            /\ pc' = "get_description"
            /\ UNCHANGED << description, collected >>

\* one pass of the loop of get_body
GetBody(line) ==
    /\ pc = "get_body"
    /\ last' = [kind |-> "input", at |-> pc, text |-> line]
    /\ UNCHANGED << args, mode, type, scope, description, breaking, desc,
                    built, message, exitCode, commitCalls, statusCalls,
                    outcome, confirmReply, reprompts >>
    /\ IF line = <<>>
       THEN /\ body' = join(<<NL>>, lines)
            /\ collected' = Append(collected, "body")
            /\ pc' = "check_breaking"
            /\ UNCHANGED lines
       ELSE /\ Len(lines) < MaxBodyLines
            /\ lines' = Append(lines, line)
            /\ UNCHANGED << pc, body, collected >>

\* check_breaking, then build_message, up to the final confirmation prompt
CheckBreaking(raw) ==
    /\ pc = "check_breaking"
    /\ last' = [kind |-> "input", at |-> pc, text |-> raw]
    /\ breaking' = check_breaking(raw)
    /\ collected' = Append(collected, "breaking")
    /\ built' = TRUE
    /\ message' = build_message(type, scope, description, body, breaking')
    /\ pc' = "confirm_commit"
    /\ UNCHANGED << args, mode, type, scope, description, body, locals,
                    exitCode, commitCalls, statusCalls, outcome, confirmReply,
                    reprompts >>

\* the final confirmation of interactive_commit
ConfirmCommit(raw) ==
    /\ pc = "confirm_commit"
    /\ last' = [kind |-> "input", at |-> pc, text |-> raw]
    /\ confirmReply' = << raw >>
    /\ UNCHANGED << args, mode, helper, locals, built, message, statusCalls,
                    collected, reprompts >>
    /\ IF confirm_commit(raw)
       THEN /\ commitCalls' = commitCalls + 1
            /\ pc' = "git_commit"
            /\ UNCHANGED << exitCode, outcome >>
       ELSE /\ Exit(1, "cancelled")
            /\ UNCHANGED commitCalls

\* execute_commit after subprocess.run, and the sys.exit of main
ExecuteCommit(result) ==
    /\ pc = "git_commit"
    /\ last' = [kind |-> "git", at |-> pc, text |-> <<>>]
    /\ CASE result = "ok" -> Exit(0, "success")
         [] result = "failed" -> Exit(1, "tool_failed")
         [] OTHER -> Exit(1, "tool_missing")
    /\ UNCHANGED << args, mode, helper, locals, built, message, commitCalls,
                    statusCalls, confirmReply, collected, reprompts >>

\* Ctrl-C at a prompt: caught in select_type only
KeyboardInterrupt ==
    /\ pc \in Prompts
    /\ last' = [kind |-> "interrupt", at |-> pc, text |-> <<>>]
    /\ IF pc = "select_type"
       THEN Exit(1, "interrupt")
       ELSE \E code \in UncaughtInterruptStatus : Exit(code, "interrupt")
    /\ UNCHANGED << args, mode, helper, locals, built, message, commitCalls,
                    statusCalls, confirmReply, collected, reprompts >>

\* end of input at a prompt: input() raises EOFError, caught nowhere
EOFError ==
    /\ pc \in Prompts
    /\ last' = [kind |-> "eof", at |-> pc, text |-> <<>>]
    /\ Exit(1, "eof")
    /\ UNCHANGED << args, mode, helper, locals, built, message, commitCalls,
                    statusCalls, confirmReply, collected, reprompts >>

Next ==
    \/ Main
    \/ \E result \in GitResults : ShowStatus(result)
    \/ \E raw \in SelectionInputs : SelectType(raw)
    \/ \E raw \in ScopeInputs : GetScope(raw)
    \/ \E raw \in DescriptionInputs : GetDescription(raw)
    \/ \E raw \in YesNoInputs : ConfirmLong(raw)
    \/ \E line \in BodyInputs : GetBody(line)
    \/ \E raw \in YesNoInputs : CheckBreaking(raw)
    \/ \E raw \in YesNoInputs : ConfirmCommit(raw)
    \/ \E result \in GitResults : ExecuteCommit(result)
    \/ KeyboardInterrupt
    \/ EOFError

Spec == Init /\ [][Next]_vars

----------------------------------------------------------------------------
(* Properties *)

\* the set of enumerated commit types
EnumeratedTypes == { COMMIT_TYPES[i] : i \in 1..Len(COMMIT_TYPES) }

\* s.split("\n")
RECURSIVE Lines(_)
Lines(s) ==
    IF \A i \in 1..Len(s) : s[i] # NL
    THEN << s >>
    ELSE LET k == CHOOSE i \in 1..Len(s) : s[i] = NL /\ \A j \in 1..(i - 1) : s[j] # NL
         IN  << SubSeq(s, 1, k - 1) >> \o Lines(SubSeq(s, k + 1, Len(s)))

\* number of empty lines among ls
BlankCount(ls) == Cardinality({ i \in 1..Len(ls) : ls[i] = <<>> })

\* the answer, as typed, is a 'y' (surrounding blanks and case aside)
AnsweredYes(raw) == lower(strip(raw)) = <<"y">>

\* C1: in quick-commit mode a TYPE outside the enumerated set ends the run
\* with exit code 1, and git commit is never called.
C1_QuickRejectsUnknownType ==
    (mode = "quick" /\ args.quick[1] \notin EnumeratedTypes)
        => (pc = "done" /\ exitCode = 1 /\ commitCalls = 0 /\ ~built)

C1_Witness ==
    /\ mode = "quick"
    /\ args.quick[1] = <<"F","e","a","t">>
    /\ pc = "done"

\* C2: whenever build_message has been called, in either mode, the
\* description is non-empty and the type is one of the enumerated types.
C2_DraftValidBeforeBuild ==
    built => (description # <<>> /\ type \in EnumeratedTypes)

\* C3: select_type stays in its loop, the run going on, on every input that
\* is out of range or not a number, and returns only on a number n in 1..11,
\* with the n-th enumerated type.
C3_SelectTypeReprompts ==
    [][ (pc = "select_type" /\ last'.kind = "input")
          => IF ~raisesValueError(last'.text)
                /\ int(last'.text) \in 1..Len(COMMIT_TYPES)
             THEN pc' = "get_scope" /\ type' = COMMIT_TYPES[int(last'.text)]
             ELSE pc' = "select_type" /\ exitCode' = Running ]_vars

\* C4: an interrupt at any prompt of the interactive flow ends the run with
\* exit code 1 and without a call of git commit.
C4_InterruptExitsOne ==
    last.kind = "interrupt" => (pc = "done" /\ exitCode = 1 /\ commitCalls = 0)

\* C5: a run that ends by cancellation, validation failure, or the external
\* tool missing or failing exits with code 1; a run exits with code 0 only
\* when the requested operation succeeded.
C5_ExitCodes ==
    pc = "done" =>
        /\ outcome \in { "cancelled", "interrupt", "invalid_selection",
                         "invalid_type", "tool_failed", "tool_missing" }
              => exitCode = 1
        /\ exitCode = 0 => outcome = "success"

\* C6: git commit is called at most once per run and never again after a
\* failure; never by --status or --types; in interactive mode only after
\* type, scope, description, body, breaking were collected in that order and
\* the final confirmation was answered 'y'; any other answer ends the run
\* with exit code 1 and no call.
C6_CommitAtMostOnce ==
    /\ commitCalls <= 1
    /\ (outcome \in {"tool_failed", "tool_missing"} /\ mode # "status")
          => (pc = "done" /\ commitCalls = 1)
    /\ mode \in {"status", "types"} => commitCalls = 0
    /\ (mode = "interactive" /\ commitCalls > 0)
          => /\ collected = <<"type", "scope", "description", "body", "breaking">>
             /\ confirmReply # <<>>
             /\ AnsweredYes(confirmReply[1])
    /\ (confirmReply # <<>> /\ ~AnsweredYes(confirmReply[1]))
          => (pc = "done" /\ exitCode = 1 /\ commitCalls = 0)

C6_Witness ==
    /\ mode = "interactive"
    /\ commitCalls = 1
    /\ confirmReply = << <<" ","Y"," ">> >>
    /\ outcome = "tool_failed"

\* C7: the first line of the message is type, then (scope) if the scope is
\* non-empty, then ! if breaking, then ": " and the description; and
\* feat / auth / "Add login" / not breaking / no body gives exactly
\* "feat(auth): Add login".
C7_HeaderFormat ==
    built =>
        /\ Lines(message)[1] =
              type
              \o (IF scope # <<>> THEN <<"(">> \o scope \o <<")">> ELSE <<>>)
              \o (IF breaking THEN <<"!">> ELSE <<>>)
              \o <<":", " ">> \o description
        /\ (scope # <<>> /\ breaking)
              => Lines(message)[1] =
                    type \o <<"(">> \o scope \o <<")", "!", ":", " ">> \o description
        /\ (scope = <<>> /\ ~breaking)
              => Lines(message)[1] = type \o <<":", " ">> \o description
        /\ ( /\ type = <<"f","e","a","t">>
             /\ scope = <<"a","u","t","h">>
             /\ description = <<"A","d","d"," ","l","o","g","i","n">>
             /\ ~breaking /\ body = <<>> )
              => message = <<"f","e","a","t","(","a","u","t","h",")",":"," ",
                             "A","d","d"," ","l","o","g","i","n">>

C7_Witness ==
    /\ built
    /\ scope = <<"a","p","i">>
    /\ breaking
    /\ body # <<>>
    /\ description = <<"A","d","d"," ","l","o","g","i","n">>

\* C8: the message has the ! before the colon of the header and ends with the
\* BREAKING CHANGE paragraph exactly when breaking is true; the paragraph is
\* then the last line, with exactly one blank line between it and what
\* precedes; fix / no scope / "Fix null pointer" / breaking / no body gives
\* "fix!: Fix null pointer\n\nBREAKING CHANGE: This commit introduces
\* breaking changes.".
C8_BreakingFooter ==
    built =>
        LET L == Lines(message)
            n == Len(L)
            k == Len(type) + (IF scope # <<>> THEN Len(scope) + 2 ELSE 0) + 1
        IN  /\ breaking <=> message[k] = "!"
            /\ breaking <=> L[n] = BREAKING_FOOTER
            /\ breaking => (n >= 3 /\ L[n - 1] = <<>> /\ L[n - 2] # <<>>)
            /\ ( /\ type = <<"f","i","x">> /\ scope = <<>>
                 /\ description = <<"F","i","x"," ","n","u","l","l"," ",
                                    "p","o","i","n","t","e","r">>
                 /\ breaking /\ body = <<>> )
                  => message = <<"f","i","x","!",":"," ","F","i","x"," ",
                                 "n","u","l","l"," ","p","o","i","n","t","e","r",
                                 NL, NL>> \o BREAKING_FOOTER

C8_Witness ==
    /\ built
    /\ breaking
    /\ type = <<"f","i","x">> /\ scope = <<>> /\ body = <<>>
    /\ description = <<"F","i","x"," ","n","u","l","l"," ","p","o","i","n","t","e","r">>

\* C9: a non-empty body is its own paragraph right after the header and
\* before the BREAKING CHANGE paragraph, with exactly one blank line on each
\* side; with an empty body the message has no body paragraph and no blank
\* line but the one before the BREAKING CHANGE paragraph.
C9_BodyParagraph ==
    built =>
        LET L == Lines(message)
            m == Len(lines)
        IN  /\ L[1] # <<>>
            /\ BlankCount(L) = (IF body # <<>> THEN 1 ELSE 0)
                               + (IF breaking THEN 1 ELSE 0)
            /\ body # <<>> =>
                  /\ m > 0
                  /\ Len(L) = 2 + m + (IF breaking THEN 2 ELSE 0)
                  /\ L[2] = <<>>
                  /\ SubSeq(L, 3, 2 + m) = lines
                  /\ breaking => (L[3 + m] = <<>> /\ L[4 + m] = BREAKING_FOOTER)
            /\ body = <<>> => Len(L) = (IF breaking THEN 3 ELSE 1)

C9_Witness ==
    /\ built
    /\ breaking
    /\ lines = << <<"w","h","y">>, <<" ">> >>

\* C10: get_description returns only a non-empty, stripped description, and
\* one longer than 72 characters only on a 'y' to the confirmation asked for
\* that same input; on an empty input or a declined confirmation it asks
\* again.
C10_DescriptionAccepted ==
    [][ /\ pc = "confirm_long"
           => (last.at = "get_description" /\ desc = strip(last.text)
               /\ Len(desc) > MaxDescLen)
        /\ (pc \in {"get_description", "confirm_long"} /\ last'.kind = "input")
           => IF pc' = "get_body"
              THEN /\ description' # <<>>
                   /\ description' = strip(description')
                   /\ Len(description') > MaxDescLen
                         => /\ pc = "confirm_long"
                            /\ AnsweredYes(last'.text)
                            /\ description' = desc
                   /\ Len(description') <= MaxDescLen
                         => (pc = "get_description"
                             /\ description' = strip(last'.text))
              ELSE /\ exitCode' = Running
                   /\ description' = description
                   /\ pc' = (IF pc = "get_description"
                                /\ Len(strip(last'.text)) > MaxDescLen
                             THEN "confirm_long" ELSE "get_description")
      ]_vars

C10_Witness ==
    /\ pc = "get_body"
    /\ Len(description) = MaxDescLen + 1
    /\ reprompts > 0

====
